---- MODULE Spec2Model ----
(***************************************************************************)
(* Tourism Management System (src/Tourism_Management_System.c).            *)
(*                                                                         *)
(* The state is what main() and the two globals hold: the list reachable   *)
(* from main's local `userptr`, the text of users.txt, currentStatus and   *)
(* currentUser.  `out` records what the last handler reported on the       *)
(* console, `creds` remembers the (username, password) pairs that          *)
(* registration accepted (an observer of the run, not program state),      *)
(* `oldPass` remembers, for a username whose password was changed since    *)
(* its registration, the password it had before the last change (an        *)
(* observer too, kept only by the specification that follows password      *)
(* changes) and `runs` counts the processes started so far.                *)
(*                                                                         *)
(* Strings are TLA+ strings.  A line of users.txt is the sequence of its   *)
(* whitespace-separated words, because fscanf's %s, %f and %d all skip     *)
(* white space, newlines included.  The floats that occur are integers;    *)
(* RoundF rounds an integer to the nearest binary32 value.                 *)
(***************************************************************************)
EXTENDS Integers, Sequences, FiniteSets, TLC

VARIABLES userptr, file, currentStatus, currentUser, out, creds, oldPass,
          runs

vars ==
  <<userptr, file, currentStatus, currentUser, out, creds, oldPass, runs>>

(***************************************************************************)
(* Bounds and the inputs typed at the prompts.                             *)
(***************************************************************************)
\* processes started after the first one (exit, then the program is run again)
MaxRuns == 1

Usernames == {"alice", "bob"}
Passwords == {"pw1", "pw2"}
\* tour codes typed at the booking prompt: a three-word place, the cheapest
\* tour, and a code outside 1..10
TourCodes == {"4", "10", "11"}
\* answers to "Confirm booking?"
Choices == {"1", "2"}
\* ticket counts typed at the booking prompt
TicketInputs == {-1, 0, 2, 1791}
\* what the uninitialised `temp` of initializeUser may hold in price and
\* numberTicket, and what is left of a word after %f has eaten the prefix of
\* "inf" it starts with ("taly" by the C standard, "aly" with glibc)
Uninit ==
  { [price |-> 0, numberTicket |-> 0, inf |-> "taly"],
    [price |-> 7, numberTicket |-> 9, inf |-> "aly"] }

(***************************************************************************)
(* The catalog: booking()'s placeList and priceList.                       *)
(***************************************************************************)
placeList ==
  << "Paris, France", "Tokyo, Japan", "Bangkok, Thailand", "Abu Dhabi, UAE",
     "Miami, USA", "Rome, Italy", "Munich, Germany", "Madrid, Spain",
     "Istanbul, Turkey", "Gilgit, Pakistan" >>

priceList ==
  << 400000, 600000, 250000, 380000, 120000,
     100000, 300000, 320000, 450000, 75000 >>

\* the code strings booking() compares the typed text with, in order
codeList == << "1", "2", "3", "4", "5", "6", "7", "8", "9", "10" >>

\* the place addUser() and cancellation() store for "no tour booked"
NoPlace == "N/A"

Range(s) == { s[i] : i \in DOMAIN s }

(***************************************************************************)
(* Text and numbers as printf writes them and scanf reads them.            *)
(***************************************************************************)
\* the whitespace-separated words of a string, as %s will read them back
Words(s) ==
  CASE s = "Paris, France"     -> << "Paris,", "France" >>
    [] s = "Tokyo, Japan"      -> << "Tokyo,", "Japan" >>
    [] s = "Bangkok, Thailand" -> << "Bangkok,", "Thailand" >>
    [] s = "Abu Dhabi, UAE"    -> << "Abu", "Dhabi,", "UAE" >>
    [] s = "Miami, USA"        -> << "Miami,", "USA" >>
    [] s = "Rome, Italy"       -> << "Rome,", "Italy" >>
    [] s = "Munich, Germany"   -> << "Munich,", "Germany" >>
    [] s = "Madrid, Spain"     -> << "Madrid,", "Spain" >>
    [] s = "Istanbul, Turkey"  -> << "Istanbul,", "Turkey" >>
    [] s = "Gilgit, Pakistan"  -> << "Gilgit,", "Pakistan" >>
    [] OTHER                   -> << s >>

\* printf("%f") of an integer-valued float, printf("%d") of an int
FmtF(v) == ToString(v) \o ".000000"
FmtD(n) == ToString(n)

\* the numbers whose text can stand in users.txt
NumDomain ==
  Range(priceList) \cup TicketInputs \cup {0}
    \cup { u.price : u \in Uninit } \cup { u.numberTicket : u \in Uninit }

Pow2(k) == 2 ^ k
Abs(x) == IF x < 0 THEN -x ELSE x

RECURSIVE ExpOf(_, _)
\* the least e with a < 2^(24+e)
ExpOf(a, e) == IF a \div Pow2(e) < Pow2(24) THEN e ELSE ExpOf(a, e + 1)

\* an integer rounded to binary32: 24 bits of mantissa, ties to even
RoundF(x) ==
  LET a == Abs(x)
      e == ExpOf(a, 0)
      q == a \div Pow2(e)
      r == a % Pow2(e)
      up == 2 * r > Pow2(e) \/ (2 * r = Pow2(e) /\ q % 2 = 1)
      m == (IF up THEN q + 1 ELSE q) * Pow2(e)
  IN  IF e = 0 THEN x ELSE IF x < 0 THEN -m ELSE m

\* scanf's %f on the next word: the value, or a matching failure, and what
\* is left of the word
ScanFloat(t, ub) ==
  IF \E v \in NumDomain : FmtF(v) = t
    THEN [ok |-> TRUE, val |-> RoundF(CHOOSE v \in NumDomain : FmtF(v) = t),
          left |-> << >>]
  ELSE IF \E v \in NumDomain : FmtD(v) = t
    THEN [ok |-> TRUE, val |-> RoundF(CHOOSE v \in NumDomain : FmtD(v) = t),
          left |-> << >>]
  ELSE IF t = ".000000"
    THEN [ok |-> TRUE, val |-> 0, left |-> << >>]
  ELSE IF t = "Italy"
    THEN [ok |-> FALSE, val |-> 0, left |-> << ub.inf >>]
  ELSE [ok |-> FALSE, val |-> 0, left |-> << t >>]

\* scanf's %d on the next word: it stops at the '.' of a %f text
ScanInt(t) ==
  IF \E v \in NumDomain : FmtD(v) = t
    THEN [ok |-> TRUE, val |-> CHOOSE v \in NumDomain : FmtD(v) = t,
          left |-> << >>]
  ELSE IF \E v \in NumDomain : FmtF(v) = t
    THEN [ok |-> TRUE, val |-> CHOOSE v \in NumDomain : FmtF(v) = t,
          left |-> << ".000000" >>]
  ELSE [ok |-> FALSE, val |-> 0, left |-> << t >>]

\* fscanf's return value at end of input before the first conversion
EOFv == -1

\* fscanf(fp, "%s %s %s %f %d", temp...): the fields it assigned, the number
\* of conversions and the words left in the stream
fscanf5(toks, temp, ub) ==
  IF toks = << >> THEN [n |-> EOFv, temp |-> temp, rest |-> toks] ELSE
  LET t1 == [temp EXCEPT !.username = toks[1]]
      r1 == Tail(toks)
  IN  IF r1 = << >> THEN [n |-> 1, temp |-> t1, rest |-> r1] ELSE
  LET t2 == [t1 EXCEPT !.password = r1[1]]
      r2 == Tail(r1)
  IN  IF r2 = << >> THEN [n |-> 2, temp |-> t2, rest |-> r2] ELSE
  LET t3 == [t2 EXCEPT !.place = r2[1]]
      r3 == Tail(r2)
  IN  IF r3 = << >> THEN [n |-> 3, temp |-> t3, rest |-> r3] ELSE
  LET f  == ScanFloat(r3[1], ub)
      r4 == f.left \o Tail(r3)
  IN  IF ~f.ok THEN [n |-> 3, temp |-> t3, rest |-> r4] ELSE
  LET t4 == [t3 EXCEPT !.price = f.val]
  IN  IF r4 = << >> THEN [n |-> 4, temp |-> t4, rest |-> r4] ELSE
  LET d  == ScanInt(r4[1])
      r5 == d.left \o Tail(r4)
  IN  IF ~d.ok THEN [n |-> 4, temp |-> t4, rest |-> r5]
      ELSE [n |-> 5, temp |-> [t4 EXCEPT !.numberTicket = d.val], rest |-> r5]

RECURSIVE Flatten(_)
\* the words of the whole file, in order
Flatten(lines) ==
  IF lines = << >> THEN << >> ELSE Head(lines) \o Flatten(Tail(lines))

RECURSIVE readLoop(_, _, _, _)
\* the while loop of initializeUser: one node per fscanf that is not EOF,
\* copied from temp, whatever fscanf left in it
readLoop(toks, temp, acc, ub) ==
  LET r == fscanf5(toks, temp, ub)
  IN  IF r.n = EOFv THEN acc
      ELSE readLoop(r.rest, r.temp, Append(acc, r.temp), ub)

\* initializeUser(NULL): the list built from users.txt; NULL (the empty
\* list) when the file is missing or empty
initializeUser(lines, ub) ==
  IF Flatten(lines) = << >> THEN << >>
  ELSE readLoop(Flatten(lines),
                [username |-> "?", password |-> "?", place |-> "?",
                 price |-> ub.price, numberTicket |-> ub.numberTicket],
                << >>, ub)

\* filing(list): the text written to users.txt, one line per node
filingStopsAtLastNode(list) ==
  [ i \in 1..(Len(list) - 1) |->
      Words(list[i].username) \o Words(list[i].password) \o Words(list[i].place)
        \o << FmtF(list[i].price), FmtD(list[i].numberTicket) >> ]

filing(list) ==
  [ i \in 1..Len(list) |->
      Words(list[i].username) \o Words(list[i].password) \o Words(list[i].place)
        \o << FmtF(list[i].price), FmtD(list[i].numberTicket) >> ]

(***************************************************************************)
(* List helpers: the while loops that walk the list.                       *)
(***************************************************************************)
\* index of the first node whose username is u, 0 when the walk ends at NULL
Find(list, u) ==
  IF \E i \in 1..Len(list) : list[i].username = u
    THEN CHOOSE i \in 1..Len(list) :
           /\ list[i].username = u
           /\ \A j \in 1..(i - 1) : list[j].username # u
    ELSE 0

\* the list seen from node i on (a pointer to node i)
FromNextNode(list, i) == SubSeq(list, i + 1, Len(list))

From(list, i) == SubSeq(list, i, Len(list))

Msg(op, res, u, p, n, amount) ==
  [op |-> op, res |-> res, u |-> u, p |-> p, n |-> n, amount |-> amount]

(***************************************************************************)
(* Initial state: the first process, started with no users.txt.            *)
(***************************************************************************)
Init ==
  /\ userptr = << >>
  /\ file = << >>
  /\ currentStatus = "menu"
  /\ currentUser = ""
  /\ out = Msg("start", "", "", "", 0, 0)
  /\ creds = {}
  /\ oldPass = [u \in Usernames |-> ""]
  /\ runs = 0

(***************************************************************************)
(* Main menu (currentStatus == menu).                                      *)
(***************************************************************************)
\* the node addUser() fills in for a new account
NewUser(u, p) ==
  [username |-> u, password |-> p, place |-> NoPlace, price |-> 0,
   numberTicket |-> 0]

\* case 1: userptr = addUser(userptr)
addUser ==
  /\ currentStatus = "menu"
  /\ \E u \in Usernames, p \in Passwords :
       IF Find(userptr, u) # 0
         THEN /\ out' = Msg("addUser", "DuplicateUsername", u, "", 0, 0)
              /\ UNCHANGED <<userptr, file, creds, oldPass>>
         ELSE /\ userptr' = Append(userptr, NewUser(u, p))
              /\ file' = filing(userptr')
              /\ creds' = { c \in creds : c[1] # u } \cup { <<u, p>> }
              /\ oldPass' = [oldPass EXCEPT ![u] = ""]
              /\ out' = Msg("addUser", "Success", u, p, 0, 0)
  /\ UNCHANGED <<currentStatus, currentUser, runs>>

\* the while loop of login(): the message, and the node returned (0 is NULL)
loginScanSkipsMismatch(list, username, password) ==
  IF \E i \in 1..Len(list) :
       list[i].username = username /\ list[i].password = password
    THEN [res |-> "Success",
          node |-> CHOOSE i \in 1..Len(list) :
                     list[i].username = username /\ list[i].password = password]
    ELSE [res |-> "UserNotFound", node |-> 0]

loginScan(list, username, password) ==
  LET i == Find(list, username)
  IN  IF i = 0 THEN [res |-> "UserNotFound", node |-> 0]
      ELSE IF list[i].password = password
        THEN [res |-> "Success", node |-> i]
        ELSE [res |-> "WrongPassword", node |-> i]

\* "currentStatus = loggedIn;" stands in the branch of a full match only
StatusAfterLoginAttempt(res, status) == "loggedIn"

StatusAfterLogin(res, status) == IF res = "Success" THEN "loggedIn" ELSE status

\* case 2: userptr = login(userptr)
login ==
  /\ currentStatus = "menu"
  /\ \E u \in Usernames, p \in Passwords :
       LET r == loginScan(userptr, u, p)
       IN  /\ userptr' = IF r.node = 0 THEN << >> ELSE From(userptr, r.node)
           /\ currentStatus' = StatusAfterLogin(r.res, currentStatus)
           /\ currentUser' = IF r.res = "Success" THEN u ELSE currentUser
           /\ out' = Msg("login", r.res, u, p, 0, 0)
  /\ UNCHANGED <<file, creds, oldPass, runs>>

\* case 3 of the main menu, case 6 of the user menu
showMenu ==
  /\ out' = Msg("showMenu", "Catalog", "", "", 0, 0)
  /\ UNCHANGED <<userptr, file, currentStatus, currentUser, creds, oldPass,
                 runs>>

\* case 4 / case 7: exit(0); then the program is started again and main()
\* builds its list from users.txt
exitProgramWithin(limit) ==
  /\ runs < limit
  /\ \E ub \in Uninit : userptr' = initializeUser(file, ub)
  /\ currentStatus' = "menu"
  /\ currentUser' = ""
  /\ runs' = runs + 1
  /\ out' = Msg("start", "", "", "", 0, 0)
  /\ UNCHANGED <<file, creds, oldPass>>

exitProgram == exitProgramWithin(MaxRuns)

\* the same, with one more start of the program allowed
exitProgramAgain == exitProgramWithin(MaxRuns + 1)

(***************************************************************************)
(* User menu (currentStatus == loggedIn).                                  *)
(***************************************************************************)
\* price * numberTicket in float arithmetic
FMul(price, n) == RoundF(price * RoundF(n))

\* the if/else chain of booking(): index of the typed code, 0 when invalid
TourIndexZeroBased(code) ==
  IF \E i \in 1..(Len(codeList) - 1) : codeList[i] = code
    THEN (CHOOSE i \in 1..(Len(codeList) - 1) : codeList[i] = code) + 1
    ELSE 0

TourIndexDefaultsToFirst(code) ==
  IF \E i \in 1..Len(codeList) : codeList[i] = code
    THEN CHOOSE i \in 1..Len(codeList) : codeList[i] = code
    ELSE 1

TourIndex(code) ==
  IF \E i \in 1..Len(codeList) : codeList[i] = code
    THEN CHOOSE i \in 1..Len(codeList) : codeList[i] = code
    ELSE 0

\* "if (userptr->numberTicket == 0) return;"
TicketsRejected(n) == n = 0

\* case 1: booking(userptr), with the tour code typed taken from Codes
bookingWith(Codes) ==
  /\ currentStatus = "loggedIn"
  /\ \E code \in Codes, choice \in Choices, n \in TicketInputs :
       LET i == Find(userptr, currentUser)
           t == TourIndex(code)
       IN  IF i = 0
             THEN /\ out' = Msg("booking", "UserNotFound", "", "", 0, 0)
                  /\ UNCHANGED <<userptr, file>>
           ELSE IF userptr[i].price # 0
             THEN /\ out' = Msg("booking", "AlreadyBooked", "", "", 0, 0)
                  /\ UNCHANGED <<userptr, file>>
           ELSE IF choice # "1"
             THEN /\ out' = Msg("booking", "NotConfirmed", choice, code, 0, 0)
                  /\ UNCHANGED <<userptr, file>>
           ELSE IF t = 0
             THEN /\ out' = Msg("booking", "InvalidTourIndex", choice, code, 0, 0)
                  /\ UNCHANGED <<userptr, file>>
           ELSE IF TicketsRejected(n)
             THEN /\ userptr' = [userptr EXCEPT ![i].numberTicket = n]
                  /\ out' = Msg("booking", "ZeroTickets", choice, code, n, 0)
                  /\ UNCHANGED file
           ELSE /\ userptr' = [userptr EXCEPT ![i].numberTicket = n,
                                              ![i].place = placeList[t],
                                              ![i].price = priceList[t]]
                /\ file' = filing(userptr')
                /\ out' = Msg("booking", "Booked", choice, code, n, 0)
  /\ UNCHANGED <<currentStatus, currentUser, creds, oldPass, runs>>

booking == bookingWith(TourCodes)

\* every code of the catalog, and one outside it
AllTourCodes == Range(codeList) \cup {"11"}

bookingAnyTour == bookingWith(AllTourCodes)

\* case 2: checkTicket(userptr); `float total` holds the product
checkTicket ==
  /\ currentStatus = "loggedIn"
  /\ LET i == Find(userptr, currentUser)
     IN  IF i = 0
           THEN out' = Msg("checkTicket", "NullDereference", "", "", 0, 0)
         ELSE IF userptr[i].place = "" \/ userptr[i].price = 0
                   \/ userptr[i].numberTicket = 0
           THEN out' = Msg("checkTicket", "NoActiveBooking", "", "", 0, 0)
         ELSE out' = Msg("checkTicket", "Amount", "", "", 0,
                         FMul(userptr[i].price, userptr[i].numberTicket))
  /\ UNCHANGED <<userptr, file, currentStatus, currentUser, creds, oldPass,
                 runs>>

\* the refund cancellation() passes to printf: the float product, or the
\* exact one where the build evaluates float expressions in a wider format
Refunds(price, n) == { FMul(price, n), price * n }

\* the strcmp chain of cancellation(): the place is one of the ten names
BookedPlaceIfNotEmpty(place) == place # ""

BookedPlace(place) == place \in Range(placeList)

\* case 3: cancellation(userptr)
cancellation ==
  /\ currentStatus = "loggedIn"
  /\ LET i == Find(userptr, currentUser)
     IN  IF i = 0
           THEN /\ out' = Msg("cancellation", "UserNotFound", "", "", 0, 0)
                /\ UNCHANGED <<userptr, file>>
         ELSE IF ~BookedPlace(userptr[i].place)
           THEN /\ out' = Msg("cancellation", "NoActiveBooking", "", "", 0, 0)
                /\ UNCHANGED <<userptr, file>>
         ELSE /\ \E refund \in Refunds(userptr[i].price, userptr[i].numberTicket) :
                   out' = Msg("cancellation", "Cancelled", "", "", 0, refund)
              /\ userptr' = [userptr EXCEPT ![i].place = NoPlace,
                                            ![i].price = 0,
                                            ![i].numberTicket = 0]
              /\ file' = filing(userptr')
  /\ UNCHANGED <<currentStatus, currentUser, creds, oldPass, runs>>

\* "scanf(" %[^\n]s", userptr->password)": the new password is read into the
\* node the walk stopped at
SetPasswordOfAll(list, i, new) ==
  [j \in 1..Len(list) |-> [list[j] EXCEPT !.password = new]]

SetPassword(list, i, new) == [list EXCEPT ![i].password = new]

\* "if (!strcmp(passCurrent, userptr->password))"
PasswordAcceptedAlways(typed, stored) == TRUE

PasswordAccepted(typed, stored) == typed = stored

\* case 4: changePassword(userptr); `note` says whether the observer
\* oldPass follows the change
changePasswordNoting(note) ==
  /\ currentStatus = "loggedIn"
  /\ \E cur \in Passwords, new \in Passwords :
       LET i == Find(userptr, currentUser)
       IN  IF i = 0
             THEN /\ out' = Msg("changePassword", "UserNotFound", cur, "", 0, 0)
                  /\ UNCHANGED <<userptr, file, creds, oldPass>>
           ELSE IF PasswordAccepted(cur, userptr[i].password)
             THEN /\ userptr' = SetPassword(userptr, i, new)
                  /\ file' = filing(userptr')
                  /\ creds' = IF \E c \in creds : c[1] = currentUser
                                THEN { c \in creds : c[1] # currentUser }
                                       \cup { <<currentUser, new>> }
                                ELSE creds
                  /\ oldPass' = IF note
                                  THEN [oldPass EXCEPT
                                          ![currentUser] = userptr[i].password]
                                  ELSE oldPass
                  /\ out' = Msg("changePassword", "Success", cur, new, 0, 0)
           ELSE /\ file' = filing(userptr)
                /\ out' = Msg("changePassword", "WrongPassword", cur, "", 0, 0)
                /\ UNCHANGED <<userptr, creds, oldPass>>
  /\ UNCHANGED <<currentStatus, currentUser, runs>>

changePassword == changePasswordNoting(FALSE)

changePasswordNoted == changePasswordNoting(TRUE)

\* case 5: logout()
logout ==
  /\ currentStatus = "loggedIn"
  /\ IF currentStatus = "menu" \/ currentUser = ""
       THEN /\ out' = Msg("logout", "NotLoggedIn", "", "", 0, 0)
            /\ UNCHANGED <<currentStatus, currentUser>>
       ELSE /\ currentUser' = ""
            /\ currentStatus' = "menu"
            /\ out' = Msg("logout", "LoggedOut", "", "", 0, 0)
  /\ UNCHANGED <<userptr, file, creds, oldPass, runs>>

\* one pass of main()'s while (1)
Next ==
  \/ addUser
  \/ login
  \/ showMenu
  \/ exitProgram
  \/ booking
  \/ checkTicket
  \/ cancellation
  \/ changePassword
  \/ logout

Spec == Init /\ [][Next]_vars

\* the program used over one more run than in Spec
NextTwoRuns ==
  \/ addUser
  \/ login
  \/ showMenu
  \/ exitProgramAgain
  \/ booking
  \/ checkTicket
  \/ cancellation
  \/ changePassword
  \/ logout

SpecTwoRuns == Init /\ [][NextTwoRuns]_vars

\* one run of the program, with every tour code typed at the booking prompt
NextAnyTour ==
  \/ addUser
  \/ login
  \/ showMenu
  \/ bookingAnyTour
  \/ checkTicket
  \/ cancellation
  \/ changePassword
  \/ logout

SpecAnyTour == Init /\ [][NextAnyTour]_vars

\* the program of Spec, with oldPass following the password changes
NextPasswordHistory ==
  \/ addUser
  \/ login
  \/ showMenu
  \/ exitProgram
  \/ booking
  \/ checkTicket
  \/ cancellation
  \/ changePasswordNoted
  \/ logout

SpecPasswordHistory == Init /\ [][NextPasswordHistory]_vars

(***************************************************************************)
(* Properties.                                                             *)
(***************************************************************************)
\* the node the handlers of the user menu work on
Current(list) == list[Find(list, currentUser)]

InStore(list, u) == \E i \in 1..Len(list) : list[i].username = u
InFile(lines, u) == \E k \in 1..Len(lines) : lines[k][1] = u

EmptyTriple(r) == r.place = NoPlace /\ r.price = 0 /\ r.numberTicket = 0
FullTriple(r) ==
  r.place \in Range(placeList) /\ r.price # 0 /\ r.numberTicket # 0

\* C1: a username that is in the in-memory store, or in users.txt, is still
\* there after any Register, Login, Logout, Book, Cancel or ChangePassword:
\* no operation of a running program removes a record.
C1_NoRecordRemoved ==
  [][ out'.op # "start" =>
        /\ \A i \in 1..Len(userptr) : InStore(userptr', userptr[i].username)
        /\ \A k \in 1..Len(file) : InFile(file', file[k][1]) ]_vars

\* C2: a Login with a (username, password) pair that Register accepted, and
\* whose password has not been changed since, succeeds and authenticates as
\* the record of that username.
C2_RegisteredLoginSucceeds ==
  [][ (out'.op = "login" /\ <<out'.u, out'.p>> \in creds) =>
        /\ out'.res = "Success"
        /\ currentStatus' = "loggedIn"
        /\ currentUser' = out'.u
        /\ userptr' # << >>
        /\ userptr'[1].username = out'.u ]_vars

\* C3: Register with a username that was registered earlier fails with
\* DuplicateUsername and leaves the store and users.txt unchanged.
C3_DuplicateRegisterFails ==
  [][ (out'.op = "addUser" /\ \E c \in creds : c[1] = out'.u) =>
        /\ out'.res = "DuplicateUsername"
        /\ userptr' = userptr
        /\ file' = file ]_vars

\* C4: loading the file that Save writes gives back the same sequence of
\* records with the same five fields, for every store built by Register,
\* Book, Cancel and ChangePassword in the first run of the program.
C4_SaveLoadRoundTrip ==
  runs = 0 => \A ub \in Uninit : initializeUser(filing(userptr), ub) = userptr

\* C5: a Login with the username of a record of the store and another
\* password reports WrongPassword, a Login with a username that is not in
\* the store reports UserNotFound, and both leave the session anonymous.
C5_LoginFailureKinds ==
  [][ out'.op = "login" =>
        LET i == Find(userptr, out'.u)
        IN  /\ (i # 0 /\ userptr[i].password # out'.p) =>
                  /\ out'.res = "WrongPassword"
                  /\ currentStatus' = "menu" /\ currentUser' = ""
            /\ i = 0 =>
                  /\ out'.res = "UserNotFound"
                  /\ currentStatus' = "menu" /\ currentUser' = "" ]_vars

\* C5 witness: a login was refused for its password: the record of the typed
\* username is there, with another password, and nobody is logged in.
C5_Witness ==
  /\ out.op = "login" /\ out.res = "WrongPassword"
  /\ userptr # << >>
  /\ userptr[1].username = out.u /\ userptr[1].password # out.p
  /\ currentStatus = "menu" /\ currentUser = ""

\* C6: in every record the place is the no-booking sentinel iff the price
\* is 0 iff the ticket count is 0.
C6_TripleAllOrNothing ==
  \A i \in 1..Len(userptr) :
    /\ (userptr[i].place = NoPlace) <=> (userptr[i].price = 0)
    /\ (userptr[i].price = 0) <=> (userptr[i].numberTicket = 0)

\* C7: a Book that gets as far as the ticket count and is given a count of
\* zero or less fails with ZeroTickets and leaves the triple empty; and no
\* record ever has a negative ticket count.
C7_NonPositiveTicketsRejected ==
  [][ /\ (out'.op = "booking" /\ out'.res \in {"Booked", "ZeroTickets"}
            /\ out'.n <= 0) =>
           /\ out'.res = "ZeroTickets"
           /\ EmptyTriple(Current(userptr'))
      /\ \A i \in 1..Len(userptr') : userptr'[i].numberTicket >= 0 ]_vars

\* C8: Book fails with AlreadyBooked exactly when the record of the logged-in
\* user has an active booking, that is a place other than the sentinel.
C8_AlreadyBookedIffActive ==
  [][ out'.op = "booking" =>
        (out'.res = "AlreadyBooked" <=> Current(userptr).place # NoPlace) ]_vars

\* C9: Cancel on a record with a booking (a catalog place, a price and a
\* ticket count) reports a refund of price times ticket count as they were
\* before, and leaves the record with the empty triple.
C9_CancelRefundsProduct ==
  [][ (out'.op = "cancellation" /\ FullTriple(Current(userptr))) =>
        /\ out'.res = "Cancelled"
        /\ out'.amount = Current(userptr).price * Current(userptr).numberTicket
        /\ EmptyTriple(Current(userptr')) ]_vars

\* C10: check-total reports exactly price times ticket count for a record
\* with a booking, NoActiveBooking for a record with the empty triple, and
\* never changes the record.
C10_TotalCostExact ==
  [][ out'.op = "checkTicket" =>
        /\ FullTriple(Current(userptr)) =>
              /\ out'.res = "Amount"
              /\ out'.amount
                   = Current(userptr).price * Current(userptr).numberTicket
        /\ EmptyTriple(Current(userptr)) => out'.res = "NoActiveBooking"
        /\ userptr' = userptr /\ file' = file ]_vars

\* the passwords users.txt holds for username u (second word of its lines)
FilePasswords(lines, u) ==
  { lines[k][2] : k \in { j \in 1..Len(lines) : lines[j][1] = u } }

\* C11: ChangePassword with a current password other than the stored one
\* reports WrongPassword and leaves the password of the user unchanged, in
\* the list and in users.txt.
C11_WrongCurrentKeepsPassword ==
  [][ (out'.op = "changePassword" /\ out'.u # Current(userptr).password) =>
        /\ out'.res = "WrongPassword"
        /\ Current(userptr').password = Current(userptr).password
        /\ FilePasswords(file', currentUser) = {Current(userptr).password} ]_vars

\* C11 witness: a password change was refused and the record, found in a
\* list of two, still has a password other than the one typed.
C11_Witness ==
  /\ out.op = "changePassword" /\ out.res = "WrongPassword"
  /\ currentStatus = "loggedIn" /\ Len(userptr) >= 2
  /\ Current(userptr).password # out.u
  /\ FilePasswords(file, currentUser) = {Current(userptr).password}

\* C12: while a user is logged in, a record with that username is in the
\* list main holds, so no handler of the user menu misses the record.
C12_SessionUserInStore ==
  /\ currentStatus = "loggedIn" =>
       /\ currentUser # ""
       /\ Find(userptr, currentUser) # 0
  /\ out.res # "NullDereference"
  /\ out.op \in {"booking", "checkTicket", "cancellation", "changePassword"}
       => out.res # "UserNotFound"

\* C12 witness: with two records in the list, check-total found the record
\* of the logged-in user and reported its total.
C12_Witness ==
  /\ currentStatus = "loggedIn" /\ out.op = "checkTicket" /\ out.res = "Amount"
  /\ Len(userptr) >= 2
  /\ Current(userptr).username = currentUser

\* C13: the session starts anonymous, and a step changes the session state
\* or the session username only if it is a successful Login (anonymous to
\* logged in as the typed username), a Logout (logged in to anonymous) or
\* the start of a new process (anonymous again); Register, Book, Cancel,
\* ChangePassword, check-total and show-catalog leave both as they are.
C13_SessionChangesOnlyByLoginLogout ==
  /\ currentStatus = "menu" /\ currentUser = ""
  /\ [][ (currentStatus' # currentStatus \/ currentUser' # currentUser) =>
           \/ /\ out'.op = "login" /\ out'.res = "Success"
              /\ currentStatus = "menu" /\ currentStatus' = "loggedIn"
              /\ currentUser' = out'.u
           \/ /\ out'.op = "logout"
              /\ currentStatus = "loggedIn" /\ currentStatus' = "menu"
              /\ currentUser' = ""
           \/ /\ out'.op = "start"
              /\ currentStatus' = "menu" /\ currentUser' = "" ]_vars

\* C13 witness: a registration has just succeeded and nobody is logged in.
C13_Witness ==
  /\ out.op = "addUser" /\ out.res = "Success"
  /\ InStore(userptr, out.u)
  /\ currentStatus = "menu" /\ currentUser = ""

\* the line of users.txt that holds record r: its five fields, in order
LineOf(r) ==
  Words(r.username) \o Words(r.password) \o Words(r.place)
    \o << FmtF(r.price), FmtD(r.numberTicket) >>

\* C14: when a Register, Book, Cancel or ChangePassword has succeeded,
\* users.txt holds exactly one line per record of the list main holds, in
\* order, with the current values of the record's five fields.
C14_SavedAfterEveryMutation ==
  [][ ( \/ out'.op = "addUser" /\ out'.res = "Success"
        \/ out'.op = "booking" /\ out'.res = "Booked"
        \/ out'.op = "cancellation" /\ out'.res = "Cancelled"
        \/ out'.op = "changePassword" /\ out'.res = "Success" ) =>
        /\ Len(file') = Len(userptr')
        /\ \A i \in 1..Len(userptr') : file'[i] = LineOf(userptr'[i]) ]_vars

\* C14 witness: a booking has just been made in a list of two records and
\* users.txt has the two lines, the first with the booked place and count.
C14_Witness ==
  /\ out.op = "booking" /\ out.res = "Booked"
  /\ Len(userptr) = 2 /\ Len(file) = 2
  /\ FullTriple(userptr[1])
  /\ file[1] = LineOf(userptr[1]) /\ file[2] = LineOf(userptr[2])

\* C15: no two records of the list main holds have the same username.
C15_UniqueUsernames ==
  \A i, j \in 1..Len(userptr) :
    userptr[i].username = userptr[j].username => i = j

\* C16: Cancel on a record whose place is none of the ten catalog names
\* reports NoActiveBooking, leaves the list as it is and does not write
\* users.txt.
C16_CancelWithoutBooking ==
  [][ (out'.op = "cancellation"
         /\ Current(userptr).place \notin Range(placeList)) =>
        /\ out'.res = "NoActiveBooking"
        /\ userptr' = userptr
        /\ file' = file ]_vars

\* C16 witness: a cancel was refused for a record that has no booking.
C16_Witness ==
  /\ out.op = "cancellation" /\ out.res = "NoActiveBooking"
  /\ currentStatus = "loggedIn"
  /\ EmptyTriple(Current(userptr))

\* C17: a confirmed Book with tour code t of 1..10 and a positive ticket
\* count, on a record whose triple is ("N/A", 0, 0), is completed and sets
\* the triple to (t-th destination name, t-th price, the count typed); with
\* a count of zero the only other outcome is the refusal for zero tickets.
C17_BookSetsTripleFromCatalog ==
  [][ \A t \in 1..10 :
        (/\ out'.op = "booking"
         /\ out'.u = "1"
         /\ out'.p = ToString(t)
         /\ Find(userptr, currentUser) # 0
         /\ EmptyTriple(Current(userptr))) =>
          /\ out'.res \in {"Booked", "ZeroTickets"}
          /\ out'.res = "ZeroTickets" => out'.n = 0
          /\ out'.n > 0 =>
               /\ out'.res = "Booked"
               /\ Current(userptr').place = placeList[t]
               /\ Current(userptr').price = priceList[t]
               /\ Current(userptr').numberTicket = out'.n ]_vars

\* C17 witness: tour 10 has just been booked with 1791 tickets and the
\* record holds the tenth destination, its price and the count.
C17_Witness ==
  /\ out.op = "booking" /\ out.res = "Booked"
  /\ out.p = "10" /\ out.n = 1791
  /\ Current(userptr).place = "Gilgit, Pakistan"
  /\ Current(userptr).price = 75000
  /\ Current(userptr).numberTicket = 1791

\* C18: a Book that reaches the prompts (record found, no price stored) and
\* is answered with anything but '1', or with a tour code that is none of
\* "1".."10", is refused (not confirmed, or invalid tour code) and leaves
\* the whole list and users.txt as they were.
C18_RefusedBookChangesNothing ==
  [][ (/\ out'.op = "booking"
       /\ Find(userptr, currentUser) # 0
       /\ Current(userptr).price = 0
       /\ (out'.u # "1" \/ out'.p \notin Range(codeList))) =>
        /\ out'.res \in {"NotConfirmed", "InvalidTourIndex"}
        /\ userptr' = userptr
        /\ file' = file ]_vars

\* C18 witness: a confirmed Book with the code "11" was refused for a
\* record with no booking, with one line in users.txt.
C18_Witness ==
  /\ out.op = "booking" /\ out.res = "InvalidTourIndex"
  /\ out.u = "1" /\ out.p = "11"
  /\ EmptyTriple(Current(userptr))
  /\ Len(file) >= 1

\* C19: a Login attempt, whatever its outcome, leaves the list main holds
\* as it was: the same records in the same order.
C19_LoginKeepsStore ==
  [][ out'.op = "login" => userptr' = userptr ]_vars

\* C20: Book, Cancel and ChangePassword made while logged in keep the
\* length of the list and every record other than the one the walk for
\* currentUser stops at.
C20_OnlyOwnRecordChanges ==
  [][ (out'.op \in {"booking", "cancellation", "changePassword"}) =>
        /\ Len(userptr') = Len(userptr)
        /\ \A j \in 1..Len(userptr) :
             j # Find(userptr, currentUser) => userptr'[j] = userptr[j] ]_vars

\* C20 witness: the logged-in user has just changed the password to one
\* that differs from the password of another record of the list.
C20_Witness ==
  /\ out.op = "changePassword" /\ out.res = "Success"
  /\ Len(userptr) >= 2
  /\ \E j \in 1..Len(userptr) :
       /\ userptr[j].username # currentUser
       /\ userptr[j].password # Current(userptr).password

\* C21: a successful ChangePassword stores the new password and keeps the
\* record's place, price and ticket count; and for a username whose
\* password was changed (and which was not registered again since), a Login
\* with the password now registered succeeds as that user, while a Login
\* with the password it had before the change, when that differs, reports
\* a wrong password.
C21_LoginAfterPasswordChange ==
  [][ /\ (out'.op = "changePassword" /\ out'.res = "Success") =>
           /\ Current(userptr').password = out'.p
           /\ Current(userptr').place = Current(userptr).place
           /\ Current(userptr').price = Current(userptr).price
           /\ Current(userptr').numberTicket = Current(userptr).numberTicket
      /\ \A u \in Usernames, p \in Passwords :
           (/\ out'.op = "login" /\ out'.u = u
            /\ oldPass[u] # ""
            /\ <<u, p>> \in creds) =>
             /\ out'.p = p =>
                  /\ out'.res = "Success"
                  /\ currentStatus' = "loggedIn"
                  /\ currentUser' = u
             /\ (out'.p = oldPass[u] /\ oldPass[u] # p) =>
                  out'.res = "WrongPassword" ]_vars

====
